---- MODULE Spec2Model ----
(***************************************************************************)
(* The two fakeserver programs of the repository:                          *)
(*   part1-app-factory : connection loop `run` over a factory Service,     *)
(*                       one request loop `run_iner` per accepted          *)
(*                       connection, every call future spawned;            *)
(*   part1-appfn       : one request loop `run` over a single Service.     *)
(* Both share one AtomicUsize counter among all call futures.              *)
(***************************************************************************)
EXTENDS Integers, Sequences, FiniteSets, Bags, TLC

\* ---------------------------------------------------------------- bounds
\* connections the connection loop takes
MaxConns == 2
\* request arrivals, over all connections, in the factory program
MaxReqs == 3
\* request arrivals in the single-service program
MaxReqsSingle == 5
\* largest counter value a directly called handler starts from
MaxCounter == 11
\* calls a direct caller makes
MaxDirectCalls == 3
\* connections a caller of the factory adapter asks for
MaxDirectConns == 1
\* connections of the end-to-end run of the factory program
MaxE2EConns == 3
\* request arrivals, over all connections, of the end-to-end run
MaxE2EReqs == 6
\* spawned call tasks alive at once in the end-to-end run
MaxE2ETasks == 3

VARIABLES
    variant,         \* which program: "factory" or "appfn"
    services,        \* what the generic engine is instantiated with
    counter,         \* the shared AtomicUsize
    connect_number,  \* run's local of the connection loop
    run_pc,          \* position of the connection loop
    factory_poll,    \* what the latest poll_ready of the factory returned
    conn,            \* per connection: setup task / request loop
    arrivals,        \* request arrivals so far, over all request loops
    calls,           \* call futures, by <<connection, request number>>
    log,             \* the bag of stdout/stderr lines written so far
    invoked,         \* the bag of invocations of the wrapped functions
    demo,            \* a DemoApp instance: its own counter and call futures
    harness,         \* what drives the services: the engine, or a caller
    last_op          \* the latest operation a direct caller performed

vars == <<variant, services, counter, connect_number, run_pc, factory_poll,
          conn, arrivals, calls, log, invoked, demo, harness, last_op>>

\* ------------------------------------------------------- pure functions
Digits == <<"0", "1", "2", "3", "4", "5", "6", "7", "8", "9">>

RECURSIVE to_string(_)
to_string(n) ==
    IF n < 10 THEN Digits[n + 1]
    ELSE to_string(n \div 10) \o Digits[(n % 10) + 1]

\* format!("Fake info, connection #{}", connect_number)
host_and_port(n) == "Fake info, connection #" \o to_string(n)

ConnInfo(n) == [host_and_port |-> host_and_port(n)]

\* {:?} of a ConnInfo (derived Debug)
ConnInfoDebug(ci) ==
    "ConnInfo { host_and_port: \"" \o ci.host_and_port \o "\" }"

EmptyMap == [x \in {} |-> ""]

\* mutant: an existing entry under the key is kept
insert_if_absent(h, k, v) ==
    [x \in (DOMAIN h) \cup {k} |-> IF x \in DOMAIN h THEN h[x] ELSE v]

\* HashMap::insert: an existing entry under the key is replaced
insert(h, k, v) ==
    [x \in (DOMAIN h) \cup {k} |-> IF x = k THEN v ELSE h[x]]

\* the request both engines construct on every arrival
FakeRequest ==
    [path_and_query |-> "/fake/path?page=1", headers |-> EmptyMap, body |-> <<>>]

EnsureMsg == "Failing 25% of the time, just for fun"

\* mutant: the value after the addition is returned
fetch_add_returns_new(c) == [returned |-> c + 1, stored |-> c + 1]

\* AtomicUsize::fetch_add(1, SeqCst) on a cell holding c, as one indivisible
\* step: the value returned and the value left in the cell
fetch_add(c) == [returned |-> c, stored |-> c + 1]

\* mutant: every call from the third on fails
ensure_sticky(c) == c < 2

\* mutant: the failing residue is 3
ensure_residue_3(c) == c % 4 /= 3

\* anyhow::ensure!(counter % 4 != 2, ...)
ensure(c) == c % 4 /= 2

\* the header key the handler stamps
FactoryKey(ci) == "Conn: " \o ConnInfoDebug(ci) \o ", X-Counter"
AppfnKey == "X-Counter"

\* body of the async block of a handler, given the value fetch_add returned
respond(key, req, c) ==
    IF ~ensure(c)
    THEN [tag |-> "Err", err |-> EnsureMsg]
    ELSE [tag |-> "Ok",
          resp |-> [status |-> 200,
                    headers |-> insert(req.headers, key, to_string(c)),
                    body |-> req.body]]

\* the closure mk_app builds for a connection (part1-app-factory)
mk_app(ci, req, c) == respond(FactoryKey(ci), req, c)

\* the closure main wraps with app_fn (part1-appfn)
main_closure(req, c) == respond(AppfnKey, req, c)

\* DemoApp::call's future (part1-appfn), given the value fetch_add returned
\* mutant: the named service fails on residue 3
DemoApp_call_residue_3(req, c) ==
    IF c % 4 = 3
    THEN [tag |-> "Err", err |-> "Failing 25% of the time, just for fun"]
    ELSE [tag |-> "Ok",
          resp |-> [status |-> 200,
                    headers |-> [x \in (DOMAIN req.headers) \cup {"X-Counter"} |->
                                   IF x = "X-Counter" THEN to_string(c)
                                   ELSE req.headers[x]],
                    body |-> req.body]]

DemoApp_call(req, c) ==
    IF c % 4 = 2
    THEN [tag |-> "Err", err |-> "Failing 25% of the time, just for fun"]
    ELSE [tag |-> "Ok",
          resp |-> [status |-> 200,
                    headers |-> [x \in (DOMAIN req.headers) \cup {"X-Counter"} |->
                                   IF x = "X-Counter" THEN to_string(c)
                                   ELSE req.headers[x]],
                    body |-> req.body]]

\* mutant: the wrapped function is handed a request of the adapter's making
AppFn_call_default(req) == [f_inputs |-> <<FakeRequest>>, future_of |-> FakeRequest]

\* mutant: the factory's function is invoked twice for one call
AppFactoryFn_call_twice(conn_info) ==
    [f_inputs |-> <<conn_info, conn_info>>, future_of |-> conn_info]

\* AppFn::call / AppFactoryFn::call: (self.f)(input): the inputs the wrapped
\* function is invoked with, and the input whose future is returned
AppFn_call(req) == [f_inputs |-> <<req>>, future_of |-> req]
AppFactoryFn_call(conn_info) == [f_inputs |-> <<conn_info>>, future_of |-> conn_info]

\* the invocations s of wrapped function fn of instance k, added to bag b
RECURSIVE invocations(_, _, _, _)
invocations(b, fn, k, s) ==
    IF s = <<>> THEN b
    ELSE invocations(b (+) SetToBag({[fn |-> fn, conn |-> k, input |-> Head(s)]}),
                     fn, k, Tail(s))

\* ------------------------------------------------------ the two contracts
\* mutant: the adapter is not ready while a call of its is in flight
AppFn_poll_ready_busy ==
    IF \E i \in DOMAIN calls : calls[i].st = "pending" THEN "Pending"
    ELSE "Ready"

\* poll_ready of the adapters: Poll::Ready(Ok(()))
AppFactoryFn_poll_ready == "Ready"
AppFn_poll_ready == "Ready"
DemoApp_poll_ready == "Ready"

\* what poll_ready of the factory can return: the adapter of main, or any
\* Service the generic `run` is instantiated with
factory_poll_ready ==
    IF services = "adapters" THEN {AppFactoryFn_poll_ready}
    ELSE {"Ready", "Pending", "Err"}

\* what poll_ready of a connection's app can return
app_poll_ready ==
    IF services = "adapters" THEN {AppFn_poll_ready}
    ELSE {"Ready", "Pending", "Err"}

\* how the future of the factory's call can end: main's closure is
\* async move { Ok(app) }
factory_future ==
    IF services = "adapters" THEN {"Ok"} ELSE {"Ok", "Err"}

\* mutant: call is issued without waiting for readiness
ready_next_call_on_pending(r) ==
    CASE r = "Ready" -> "call"
      [] r = "Err" -> "sleep"
      [] r = "Pending" -> "call"

\* mutant: the Err arm falls through to the call
ready_next_call_on_err(r) ==
    CASE r = "Ready" -> "call"
      [] r = "Err" -> "call"
      [] r = "Pending" -> "ready"

\* mutant: the Err arm polls again instead of continuing the loop
ready_next_retry_on_err(r) ==
    CASE r = "Ready" -> "call"
      [] r = "Err" -> "ready"
      [] r = "Pending" -> "ready"

\* match app.ready().await { Err(e) => { eprintln; continue } Ok(app) => app }
\* ready() resolves only on Poll::Ready; on Poll::Pending the loop's task
\* stays suspended in the await
ready_next(r) ==
    CASE r = "Ready" -> "call"
      [] r = "Err" -> "sleep"
      [] r = "Pending" -> "ready"

\* mutant: one app for all connections, stamping the newest ConnInfo
handler_newest_conn(k, req, c) ==
    IF variant = "factory" THEN mk_app(ConnInfo(connect_number), req, c)
    ELSE main_closure(req, c)

\* the future a connection's app returns from call(req), run on counter c
handler(k, req, c) ==
    IF variant = "factory" THEN mk_app(conn[k].info, req, c)
    ELSE main_closure(req, c)

\* ------------------------------------------------------------------ state
Conns == 0 .. (IF MaxConns < MaxE2EConns THEN MaxE2EConns ELSE MaxConns)

\* connection arrivals modelled
ConnBound ==
    CASE harness = "e2e" -> MaxE2EConns
      [] harness = "caller" -> MaxDirectConns
      [] OTHER -> MaxConns

\* request arrivals modelled for the program at hand
ArrivalBound ==
    CASE harness = "e2e" -> MaxE2EReqs
      [] harness = "caller" -> MaxDirectCalls
      [] variant = "appfn" -> MaxReqsSingle
      [] OTHER -> MaxReqs

\* the spawned call tasks that have not finished: the future not yet run,
\* or run and its outcome not yet printed
InFlight == {i \in DOMAIN calls : calls[i].st \in {"pending", "done"}}

\* call tasks modelled alive at once (no more than there are arrivals)
TaskBound ==
    CASE harness = "e2e" -> MaxE2ETasks
      [] OTHER -> ArrivalBound

\* the mark of the call issued when n calls have been issued before it, over
\* all connections: 3 for the third call issued, 0 for every other one
issue_rank(n) == IF n = 2 THEN 3 ELSE 0

\* the position, in the order of execution over all connections, of the
\* future that runs when n futures have run before it
run_rank(n) == n + 1

NoDemo == [counter |-> 0, poll |-> "none", calls |-> EmptyMap]

NoOp == [op |-> "none"]

NoConn == [st |-> "none", pc |-> "sleep", req_no |-> 0, poll |-> "none",
           info |-> ConnInfo(0)]

NoResult == [tag |-> "Pending"]

Init ==
    /\ variant \in {"factory", "appfn"}
    /\ services \in {"adapters", "generic"}
    /\ counter = 0
    /\ connect_number = 0
    /\ run_pc = "sleep"
    /\ factory_poll = "none"
    /\ conn = [k \in Conns |->
                 IF k = 0 /\ variant = "appfn"
                 THEN [NoConn EXCEPT !.st = "loop"]
                 ELSE NoConn]
    /\ arrivals = 0
    /\ calls = EmptyMap
    /\ log = EmptyBag
    /\ invoked = EmptyBag
    /\ demo = NoDemo
    /\ harness = "engine"
    /\ last_op = NoOp

\* -------------------------------------------- connection loop (factory)
\* the rest of an iteration of `run` once poll_ready of the factory has
\* returned r for connection n: Ready: call and spawn; Err: eprintln and
\* continue; Pending: suspended in ready().await
run_polled(n, r) ==
    /\ factory_poll' = r
    /\ CASE ready_next(r) = "call" ->
              LET c == AppFactoryFn_call(ConnInfo(n)) IN
                /\ conn' = [conn EXCEPT ![n].st = "setup",
                                        ![n].info = c.future_of]
                /\ invoked' = invocations(invoked, "factory", n, c.f_inputs)
                /\ run_pc' = "sleep"
                /\ UNCHANGED log
         [] ready_next(r) = "sleep" ->
              /\ conn' = [conn EXCEPT ![n].st = "dropped"]
              /\ run_pc' = "sleep"
              /\ log' = log (+) SetToBag({[kind |-> "factory_not_ready", conn |-> n]})
              /\ UNCHANGED invoked
         [] ready_next(r) = "ready" ->
              /\ run_pc' = "ready"
              /\ UNCHANGED <<conn, log, invoked>>

\* mutant: the connection's unit is awaited in the loop instead of spawned
run_arrival_awaits_unit ==
    /\ variant = "factory"
    /\ run_pc = "sleep"
    /\ connect_number < ConnBound
    /\ \A k \in Conns : conn[k].st \notin {"setup", "loop"}
    /\ connect_number' = connect_number + 1
    /\ \E r \in factory_poll_ready : run_polled(connect_number + 1, r)
    /\ UNCHANGED <<variant, services, counter, arrivals, calls>>
    /\ UNCHANGED <<demo, harness, last_op>>

\* mutant: a refused arrival gives its identifier back
run_arrival_reuses_refused ==
    /\ variant = "factory"
    /\ run_pc = "sleep"
    /\ connect_number < ConnBound
    /\ \E r \in factory_poll_ready :
         /\ run_polled(connect_number + 1, r)
         /\ connect_number' = IF r = "Err" THEN connect_number
                               ELSE connect_number + 1
    /\ UNCHANGED <<variant, services, counter, arrivals, calls>>
    /\ UNCHANGED <<demo, harness, last_op>>

\* sleep(2s) elapsed: connect_number += 1, conn_info, ready().await ...
run_arrival ==
    /\ variant = "factory"
    /\ run_pc = "sleep"
    /\ connect_number < ConnBound
    /\ connect_number' = connect_number + 1
    /\ \E r \in factory_poll_ready : run_polled(connect_number + 1, r)
    /\ UNCHANGED <<variant, services, counter, arrivals, calls>>
    /\ UNCHANGED <<demo, harness, last_op>>

\* the factory woke the suspended loop: ready() polls poll_ready again
run_wake ==
    /\ run_pc = "ready"
    /\ \E r \in factory_poll_ready : run_polled(connect_number, r)
    /\ UNCHANGED <<variant, services, counter, connect_number, arrivals, calls>>
    /\ UNCHANGED <<demo, harness, last_op>>

\* mutant: the request loop is started whatever the future returned
setup_next_always_loop(o) == "loop"

\* the spawned task's match future.await: Ok(app) => run_iner(app) starts,
\* Err(e) => eprintln and the task ends
setup_next(o) == IF o = "Ok" THEN "loop" ELSE "failed"

\* the spawned task of connection k: the factory call's future completes
setup_done(k) ==
    /\ conn[k].st = "setup"
    /\ \E o \in factory_future :
         /\ conn' = [conn EXCEPT ![k].st = setup_next(o)]
         /\ log' = log (+) SetToBag({[kind |-> IF o = "Ok" THEN "accepted"
                                               ELSE "factory_error",
                                      conn |-> k]})
    /\ UNCHANGED <<variant, services, counter, connect_number, run_pc,
                   factory_poll, arrivals, calls>>
    /\ UNCHANGED <<invoked, demo, harness, last_op>>

\* ------------------------------ request loop (run_iner / appfn's run)
\* the rest of an iteration of the request loop of connection k once
\* poll_ready of its app has returned r for request number q
req_polled(k, q, r) ==
    CASE ready_next(r) = "call" ->
           LET c == AppFn_call(FakeRequest) IN
             /\ calls' = calls @@ (<<k, q>> :> [conn |-> k, req |-> q,
                                      given |-> FakeRequest,
                                      request |-> c.future_of, st |-> "pending",
                                      issued |-> issue_rank(Cardinality(DOMAIN calls)),
                                      ran |-> 0,
                                      observed |-> -1, res |-> NoResult])
             /\ invoked' = invocations(invoked, "app", k, c.f_inputs)
             /\ conn' = [conn EXCEPT ![k].pc = "sleep", ![k].poll = r,
                                     ![k].req_no = q]
             /\ UNCHANGED log
      [] ready_next(r) = "sleep" ->
           /\ conn' = [conn EXCEPT ![k].pc = "sleep", ![k].poll = r,
                                   ![k].req_no = q]
           /\ log' = log (+) SetToBag({[kind |-> "app_not_ready", conn |-> k,
                                  req |-> q]})
           /\ UNCHANGED <<calls, invoked>>
      [] ready_next(r) = "ready" ->
           /\ conn' = [conn EXCEPT ![k].pc = "ready", ![k].poll = r,
                                   ![k].req_no = q]
           /\ UNCHANGED <<calls, log, invoked>>

\* mutant: the loop awaits the previous call's future before the next request
req_arrival_awaits_call(k) ==
    /\ conn[k].st = "loop"
    /\ conn[k].pc = "sleep"
    /\ arrivals < ArrivalBound
    /\ Cardinality(InFlight) < TaskBound
    /\ \A i \in DOMAIN calls : i[1] = k => calls[i].st /= "pending"
    /\ arrivals' = arrivals + 1
    /\ \E r \in app_poll_ready : req_polled(k, conn[k].req_no + 1, r)
    /\ UNCHANGED <<variant, services, counter, connect_number, run_pc,
                   factory_poll>>
    /\ UNCHANGED <<demo, harness, last_op>>

\* sleep elapsed: the Request is constructed, ready().await ...
req_arrival(k) ==
    /\ conn[k].st = "loop"
    /\ conn[k].pc = "sleep"
    /\ arrivals < ArrivalBound
    /\ Cardinality(InFlight) < TaskBound
    /\ arrivals' = arrivals + 1
    /\ \E r \in app_poll_ready : req_polled(k, conn[k].req_no + 1, r)
    /\ UNCHANGED <<variant, services, counter, connect_number, run_pc,
                   factory_poll>>
    /\ UNCHANGED <<demo, harness, last_op>>

\* the app woke the suspended loop: ready() polls poll_ready again
req_wake(k) ==
    /\ conn[k].st = "loop"
    /\ conn[k].pc = "ready"
    /\ \E r \in app_poll_ready : req_polled(k, conn[k].req_no, r)
    /\ UNCHANGED <<variant, services, counter, connect_number, run_pc,
                   factory_poll, arrivals>>
    /\ UNCHANGED <<demo, harness, last_op>>

\* the spawned task polls the call's future: fetch_add, ensure!, Response
fut_run(i) ==
    /\ calls[i].st = "pending"
    /\ LET fa == fetch_add(counter) IN
         /\ counter' = fa.stored
         /\ calls' = [calls EXCEPT
                        ![i].st = "done",
                        ![i].ran = run_rank(Cardinality(
                            {j \in DOMAIN calls : calls[j].st /= "pending"})),
                        ![i].observed = fa.returned,
                        ![i].res = handler(calls[i].conn, calls[i].request,
                                           fa.returned)]
    /\ UNCHANGED <<variant, services, connect_number, run_pc, factory_poll,
                   conn, arrivals, log>>
    /\ UNCHANGED <<invoked, demo, harness, last_op>>

\* mutant: a failed call ends the request loop of its connection
fut_log_teardown(i) ==
    /\ calls[i].st = "done"
    /\ calls' = [calls EXCEPT ![i].st = "logged"]
    /\ log' = log (+) SetToBag({[kind |-> IF calls[i].res.tag = "Ok"
                                    THEN "response" ELSE "error",
                           conn |-> calls[i].conn, req |-> calls[i].req,
                           res |-> calls[i].res]})
    /\ conn' = IF calls[i].res.tag = "Ok" THEN conn
               ELSE [conn EXCEPT ![calls[i].conn].st = "failed"]
    /\ UNCHANGED <<variant, services, counter, connect_number, run_pc,
                   factory_poll, arrivals>>
    /\ UNCHANGED <<invoked, demo, harness, last_op>>

\* the spawned task prints the outcome
fut_log(i) ==
    /\ calls[i].st = "done"
    /\ calls' = [calls EXCEPT ![i].st = "logged"]
    /\ log' = log (+) SetToBag({[kind |-> IF calls[i].res.tag = "Ok"
                                    THEN "response" ELSE "error",
                           conn |-> calls[i].conn, req |-> calls[i].req,
                           res |-> calls[i].res]})
    /\ UNCHANGED <<variant, services, counter, connect_number, run_pc,
                   factory_poll, conn, arrivals>>
    /\ UNCHANGED <<invoked, demo, harness, last_op>>

Next ==
    \/ run_arrival
    \/ run_wake
    \/ \E k \in Conns : setup_done(k)
    \/ \E k \in Conns : req_arrival(k)
    \/ \E k \in Conns : req_wake(k)
    \/ \E i \in DOMAIN calls : fut_run(i)
    \/ \E i \in DOMAIN calls : fut_log(i)

Spec == Init /\ [][Next]_vars

\* the runtime polls every spawned task: while some task can run its
\* future, one does, and while some task has its result, one prints it (a
\* task that can take its step stays able to until it takes it)
FairSpec ==
    /\ Spec
    /\ WF_vars(\E i \in DOMAIN calls : fut_run(i))
    /\ WF_vars(\E i \in DOMAIN calls : fut_log(i))

\* ------------------------------------ a handler called on any request
\* header mappings and bodies a caller can hand to call(req)
HeaderKeys == {"Host", AppfnKey, FactoryKey(ConnInfo(1))}
HeaderValues == {"a", "7"}
HeaderMaps == UNION {[d -> HeaderValues] : d \in SUBSET HeaderKeys}
Bodies == {<<>>, <<104, 105>>, <<0>>}
Requests ==
    [path_and_query : {"/fake/path?page=1"}, headers : HeaderMaps,
     body : Bodies]

\* call(req) has just been invoked once on a handler (mk_app's closure for
\* connection #1, or the appfn closure) whose counter holds any value
HandlerInit ==
    /\ variant \in {"factory", "appfn"}
    /\ services = "adapters"
    /\ counter \in 0 .. MaxCounter
    /\ connect_number = 0
    /\ run_pc = "sleep"
    /\ factory_poll = "none"
    /\ arrivals = 0
    /\ log = EmptyBag
    /\ invoked = EmptyBag
    /\ demo = NoDemo
    /\ harness = "caller"
    /\ last_op = NoOp
    /\ \E k \in {IF variant = "factory" THEN 1 ELSE 0} :
         /\ conn = [j \in Conns |->
                      IF j = k
                      THEN [NoConn EXCEPT !.st = "called", !.req_no = 1,
                                          !.poll = "Ready", !.info = ConnInfo(k)]
                      ELSE NoConn]
         /\ \E rq \in Requests :
              calls = (<<k, 1>> :> [conn |-> k, req |-> 1, given |-> rq,
                                    request |-> rq,
                                    st |-> "pending", issued |-> issue_rank(0),
                                    ran |-> 0, observed |-> -1,
                                    res |-> NoResult])

HandlerNext ==
    \/ \E i \in DOMAIN calls : fut_run(i)
    \/ \E i \in DOMAIN calls : fut_log(i)

HandlerSpec == HandlerInit /\ [][HandlerNext]_vars

\* ------------------------------ the adapters driven by a caller directly
\* requests a caller hands to call(req)
DriveRequests ==
    {FakeRequest,
     [path_and_query |-> "/fake/path?page=1", headers |-> (AppfnKey :> "7"),
      body |-> <<104, 105>>]}

\* main's services (the AppFactoryFn and the AppFn it produces per
\* connection, or the appfn program's AppFn next to a DemoApp given the same
\* operations) before any operation
DriveInit ==
    /\ variant \in {"factory", "appfn"}
    /\ services = "adapters"
    /\ counter = 0
    /\ connect_number = 0
    /\ run_pc = "sleep"
    /\ factory_poll = "none"
    /\ conn = [k \in Conns |->
                 IF k = 0 /\ variant = "appfn"
                 THEN [NoConn EXCEPT !.st = "loop"]
                 ELSE NoConn]
    /\ arrivals = 0
    /\ calls = EmptyMap
    /\ log = EmptyBag
    /\ invoked = EmptyBag
    /\ demo = NoDemo
    /\ harness = "caller"
    /\ last_op = NoOp

\* AppFactoryFn::poll_ready
drive_factory_poll ==
    /\ variant = "factory"
    /\ factory_poll' = AppFactoryFn_poll_ready
    /\ last_op' = [op |-> "factory_poll_ready",
                   ret |-> AppFactoryFn_poll_ready]
    /\ UNCHANGED <<variant, services, counter, connect_number, run_pc, conn,
                   arrivals, calls, log, invoked, demo, harness>>

\* AppFactoryFn::call(conn_info) for the next connection
drive_factory_call ==
    /\ variant = "factory"
    /\ connect_number < ConnBound
    /\ LET n == connect_number + 1
           c == AppFactoryFn_call(ConnInfo(n)) IN
         /\ connect_number' = n
         /\ conn' = [conn EXCEPT ![n].st = "setup", ![n].info = c.future_of]
         /\ invoked' = invocations(invoked, "factory", n, c.f_inputs)
         /\ last_op' = [op |-> "factory_call", target |-> n]
    /\ UNCHANGED <<variant, services, counter, run_pc, factory_poll, arrivals,
                   calls, log, demo, harness>>

\* AppFn::poll_ready on the app of connection k (and DemoApp::poll_ready)
drive_poll(k) ==
    /\ conn[k].st = "loop"
    /\ conn' = [conn EXCEPT ![k].poll = AppFn_poll_ready]
    /\ demo' = IF variant = "appfn"
               THEN [demo EXCEPT !.poll = DemoApp_poll_ready] ELSE demo
    /\ last_op' = [op |-> "poll_ready", target |-> k, ret |-> AppFn_poll_ready]
    /\ UNCHANGED <<variant, services, counter, connect_number, run_pc,
                   factory_poll, arrivals, calls, log, invoked, harness>>

\* mutant: the counter is incremented when call is invoked
drive_call_eager(k, rq) ==
    /\ conn[k].st = "loop"
    /\ arrivals < ArrivalBound
    /\ LET q == conn[k].req_no + 1
           c == AppFn_call(rq) IN
         /\ calls' = calls @@ (<<k, q>> :> [conn |-> k, req |-> q,
                                  given |-> rq, request |-> c.future_of,
                                  st |-> "pending", observed |-> -1,
                                  res |-> NoResult])
         /\ invoked' = invocations(invoked, "app", k, c.f_inputs)
         /\ conn' = [conn EXCEPT ![k].req_no = q]
         /\ demo' = IF variant = "appfn"
                    THEN [demo EXCEPT !.calls = @ @@
                            (q :> [request |-> rq, st |-> "pending",
                                   observed |-> -1, res |-> NoResult])]
                    ELSE demo
         /\ last_op' = [op |-> "call", target |-> k, req |-> q]
    /\ arrivals' = arrivals + 1
    /\ counter' = fetch_add(counter).stored
    /\ UNCHANGED <<variant, services, connect_number, run_pc, factory_poll,
                   log, harness>>

\* AppFn::call(rq) on the app of connection k (and DemoApp::call(rq)): the
\* future is returned, nothing of it has run
drive_call(k, rq) ==
    /\ conn[k].st = "loop"
    /\ arrivals < ArrivalBound
    /\ LET q == conn[k].req_no + 1
           c == AppFn_call(rq) IN
         /\ calls' = calls @@ (<<k, q>> :> [conn |-> k, req |-> q,
                                  given |-> rq, request |-> c.future_of,
                                  st |-> "pending", observed |-> -1,
                                  res |-> NoResult])
         /\ invoked' = invocations(invoked, "app", k, c.f_inputs)
         /\ conn' = [conn EXCEPT ![k].req_no = q]
         /\ demo' = IF variant = "appfn"
                    THEN [demo EXCEPT !.calls = @ @@
                            (q :> [request |-> rq, st |-> "pending",
                                   observed |-> -1, res |-> NoResult])]
                    ELSE demo
         /\ last_op' = [op |-> "call", target |-> k, req |-> q]
    /\ arrivals' = arrivals + 1
    /\ UNCHANGED <<variant, services, counter, connect_number, run_pc,
                   factory_poll, log, harness>>

\* the caller awaits the future of call i (and DemoApp's future of the same
\* call): fetch_add, ensure!, Response
drive_run(i) ==
    /\ calls[i].st = "pending"
    /\ LET fa == fetch_add(counter) IN
         /\ counter' = fa.stored
         /\ calls' = [calls EXCEPT
                        ![i].st = "done",
                        ![i].observed = fa.returned,
                        ![i].res = handler(calls[i].conn, calls[i].request,
                                           fa.returned)]
    /\ demo' = IF variant = "appfn"
               THEN LET da == fetch_add(demo.counter) IN
                      [demo EXCEPT
                         !.counter = da.stored,
                         !.calls[i[2]].st = "done",
                         !.calls[i[2]].observed = da.returned,
                         !.calls[i[2]].res =
                             DemoApp_call(demo.calls[i[2]].request, da.returned)]
               ELSE demo
    /\ last_op' = [op |-> "run", target |-> i[1], req |-> i[2]]
    /\ UNCHANGED <<variant, services, connect_number, run_pc, factory_poll,
                   conn, arrivals, log, invoked, harness>>

\* the caller drops the future of call i without having polled it
drive_drop(i) ==
    /\ calls[i].st = "pending"
    /\ calls' = [calls EXCEPT ![i].st = "dropped"]
    /\ demo' = IF variant = "appfn"
               THEN [demo EXCEPT !.calls[i[2]].st = "dropped"] ELSE demo
    /\ last_op' = [op |-> "drop", target |-> i[1], req |-> i[2]]
    /\ UNCHANGED <<variant, services, counter, connect_number, run_pc,
                   factory_poll, conn, arrivals, log, invoked, harness>>

\* the caller awaits the future AppFactoryFn::call returned for connection
\* k: main's closure is async move { Ok(app) }, the caller has the app and
\* nothing is printed
drive_factory_await(k) ==
    /\ conn[k].st = "setup"
    /\ \E o \in factory_future :
         conn' = [conn EXCEPT ![k].st = setup_next(o)]
    /\ UNCHANGED <<variant, services, counter, connect_number, run_pc,
                   factory_poll, arrivals, calls, log>>
    /\ UNCHANGED <<invoked, demo, harness, last_op>>

DriveNext ==
    \/ drive_factory_poll
    \/ drive_factory_call
    \/ \E k \in Conns : drive_factory_await(k)
    \/ \E k \in Conns : drive_poll(k)
    \/ \E k \in Conns : \E rq \in DriveRequests : drive_call(k, rq)
    \/ \E i \in DOMAIN calls : drive_run(i)
    \/ \E i \in DOMAIN calls : drive_drop(i)

DriveSpec == DriveInit /\ [][DriveNext]_vars

\* ================================================================ claims
Ran == {i \in DOMAIN calls : calls[i].st /= "pending"}

\* number of lines of the log equal to e
Logged(e) == CopiesIn(e, log)

\* decimal text of 0 .. 20, written out
Decimal ==
    <<"0", "1", "2", "3", "4", "5", "6", "7", "8", "9", "10", "11", "12",
      "13", "14", "15", "16", "17", "18", "19", "20">>

\* the header key a call of connection k stamps, written out
ExpectedKey(k) ==
    CASE variant = "appfn" -> "X-Counter"
      [] k = 1 ->
           "Conn: ConnInfo { host_and_port: \"Fake info, connection #1\" }, X-Counter"
      [] k = 2 ->
           "Conn: ConnInfo { host_and_port: \"Fake info, connection #2\" }, X-Counter"
      [] k = 3 ->
           "Conn: ConnInfo { host_and_port: \"Fake info, connection #3\" }, X-Counter"
      [] k = 4 ->
           "Conn: ConnInfo { host_and_port: \"Fake info, connection #4\" }, X-Counter"
      [] OTHER -> "?"

\* C1: the calls whose futures have run the counter step observed, between
\* them, each of 0 .. N-1 exactly once (N = number of such calls), whatever
\* the interleaving and whatever connections they belong to.
C1_ObservedExactlyOnce ==
    LET N == Cardinality(Ran) IN
      /\ \A i \in Ran : calls[i].observed \in 0 .. (N - 1)
      /\ \A v \in 0 .. (N - 1) :
           Cardinality({i \in Ran : calls[i].observed = v}) = 1
      /\ counter = N

\* three calls have run, on two connections, and on one connection the later
\* request observed the smaller value
C1_Witness ==
    /\ Cardinality(Ran) >= 3
    /\ \E i, j \in Ran : i[1] /= j[1]
    /\ \E i, j \in Ran :
         i[1] = j[1] /\ i[2] < j[2] /\ calls[i].observed > calls[j].observed

\* C2: a call fails iff the value it observed is 2 mod 4 (0,1,2,3,4,5 give
\* success, success, failure, success, success, success); a failing call
\* carries the error and no Response.
C2_FailsIffMod4Is2 ==
    \A i \in Ran :
      LET c == calls[i].observed
          r == calls[i].res
      IN /\ r.tag \in {"Ok", "Err"}
         /\ (r.tag = "Err") <=> (c % 4 = 2)
         /\ c \in 0 .. 5 =>
              (r.tag = "Ok") = <<TRUE, TRUE, FALSE, TRUE, TRUE, TRUE>>[c + 1]
         /\ r.tag = "Err" =>
              /\ DOMAIN r = {"tag", "err"}
              /\ r.err = "Failing 25% of the time, just for fun"
         /\ r.tag = "Ok" => DOMAIN r = {"tag", "resp"}

\* a call that observed 6 has failed
C2_Witness ==
    \E i \in Ran : calls[i].observed = 6 /\ calls[i].res.tag = "Err"

\* C3 as stated: every successful Response has status 200, the request's
\* body, and the request's headers plus one added entry under the counter
\* key (one header more, every entry of the request preserved).
C3_Original ==
    \A i \in Ran :
      calls[i].res.tag = "Ok" =>
        LET H == calls[i].request.headers
            R == calls[i].res.resp
            key == ExpectedKey(i[1])
        IN /\ R.status = 200
           /\ R.body = calls[i].request.body
           /\ DOMAIN R.headers = (DOMAIN H) \cup {key}
           /\ R.headers[key] = Decimal[calls[i].observed + 1]
           /\ Cardinality(DOMAIN R.headers) = Cardinality(DOMAIN H) + 1
           /\ \A h \in DOMAIN H : R.headers[h] = H[h]

\* C3 amended: status 200, the request's body, and the request's headers
\* with the counter key set to the observed value: one entry added and all
\* of the request's entries preserved when the request had no entry under
\* that key, that entry's value replaced (same number of headers) when it had.
C3_EchoWithCounterKeySet ==
    \A i \in Ran :
      calls[i].res.tag = "Ok" =>
        LET H == calls[i].request.headers
            R == calls[i].res.resp
            key == ExpectedKey(i[1])
        IN /\ R.status = 200
           /\ R.body = calls[i].request.body
           /\ DOMAIN R.headers = (DOMAIN H) \cup {key}
           /\ R.headers[key] = Decimal[calls[i].observed + 1]
           /\ \A h \in (DOMAIN H) \ {key} : R.headers[h] = H[h]
           /\ Cardinality(DOMAIN R.headers) =
                IF key \in DOMAIN H THEN Cardinality(DOMAIN H)
                ELSE Cardinality(DOMAIN H) + 1

\* a successful call whose request already had an entry under the counter
\* key, with another value, beside another header and a non-empty body
C3_Witness ==
    \E i \in Ran :
      /\ calls[i].res.tag = "Ok"
      /\ calls[i].observed >= 10
      /\ calls[i].request.body /= <<>>
      /\ "Host" \in DOMAIN calls[i].request.headers
      /\ ExpectedKey(i[1]) \in DOMAIN calls[i].request.headers
      /\ calls[i].res.resp.headers[ExpectedKey(i[1])] /=
           calls[i].request.headers[ExpectedKey(i[1])]

CallsOf(k) == {i \in DOMAIN calls : i[1] = k}

FactoryNotReady(n) == [kind |-> "factory_not_ready", conn |-> n]
FactoryError(n) == [kind |-> "factory_error", conn |-> n]
Accepted(n) == [kind |-> "accepted", conn |-> n]
AppNotReady(k, q) == [kind |-> "app_not_ready", conn |-> k, req |-> q]

\* C4 as stated: once poll_ready of the factory or of a connection's app
\* has reported NotReady, the loop has abandoned that arrival and is back
\* waiting for the next arrival signal.
C4_Original ==
    /\ factory_poll = "Pending" => run_pc = "sleep"
    /\ \A k \in Conns : conn[k].poll = "Pending" => conn[k].pc = "sleep"

\* what the loops do instead: the connection loop is suspended in
\* ready().await on the factory, its arrival neither dropped nor logged, while
\* a request loop is suspended on its app with a request that has no call and
\* no log line
C4_Witness ==
    /\ run_pc = "ready"
    /\ factory_poll = "Pending"
    /\ conn[connect_number].st = "none"
    /\ Logged(FactoryNotReady(connect_number)) = 0
    /\ \E k \in Conns :
         /\ conn[k].pc = "ready"
         /\ conn[k].poll = "Pending"
         /\ <<k, conn[k].req_no>> \notin DOMAIN calls
         /\ Logged(AppNotReady(k, conn[k].req_no)) = 0

\* C5: a call exists for the current arrival of a loop exactly when the
\* latest poll_ready on that instance returned Ready (the poll of that same
\* iteration, with nothing on the instance in between), in the request loops
\* and in the connection loop; no call exists for anything but an arrival.
C5_CallOnlyAfterReady ==
    /\ \A k \in Conns :
         conn[k].st = "loop" /\ conn[k].req_no >= 1 =>
           /\ (conn[k].poll = "Ready") <=> (<<k, conn[k].req_no>> \in DOMAIN calls)
           /\ conn[k].poll = "Ready" => conn[k].pc = "sleep"
    /\ \A i \in DOMAIN calls :
         /\ i[2] \in 1 .. conn[i[1]].req_no
         /\ calls[i].st \in {"pending", "done", "logged"}
    /\ connect_number >= 1 =>
         (factory_poll = "Ready") <=>
           (conn[connect_number].st \in {"setup", "loop", "failed"})
    /\ \A n \in Conns : n > connect_number => conn[n].st = "none"

\* on one connection the first request was refused by poll_ready and the
\* second was called after a Ready, behind a factory that was Ready
C5_Witness ==
    /\ services = "generic"
    /\ factory_poll = "Ready"
    /\ \E k \in Conns :
         /\ conn[k].poll = "Ready"
         /\ conn[k].req_no = 2
         /\ <<k, 1>> \notin DOMAIN calls
         /\ <<k, 2>> \in DOMAIN calls

\* C6: an arrival for which the factory's poll_ready reported Failed is
\* logged once, its connection stays dropped (the factory is never called for
\* it, no request loop, no request, no second attempt), and the connection
\* loop is back waiting for the next arrival.
C6_FactoryFailedAbandons ==
    \A n \in 1 .. MaxConns :
      (Logged(FactoryNotReady(n)) >= 1 \/ (n = connect_number /\ factory_poll = "Err"))
        => /\ Logged(FactoryNotReady(n)) = 1
           /\ conn[n].st = "dropped"
           /\ conn[n].req_no = 0
           /\ CallsOf(n) = {}
           /\ Logged(Accepted(n)) = 0
           /\ Logged(FactoryError(n)) = 0
           /\ n = connect_number => run_pc = "sleep"

\* connection #1 was refused by the factory's poll_ready, connection #2 was
\* accepted afterwards and has a call in flight
C6_Witness ==
    /\ Logged(FactoryNotReady(1)) = 1
    /\ conn[1].st = "dropped"
    /\ conn[2].st = "loop"
    /\ CallsOf(2) /= {}

\* C7: a request for which the app's poll_ready reported Failed is logged
\* once and never called (not retried, not queued), the counter still counts
\* only the futures that ran, and the loop of that connection is back
\* waiting for its next arrival.
C7_AppFailedSkipsRequest ==
    /\ \A k \in Conns :
         \A q \in 1 .. conn[k].req_no :
           (Logged(AppNotReady(k, q)) >= 1 \/ (q = conn[k].req_no /\ conn[k].poll = "Err"))
             => /\ Logged(AppNotReady(k, q)) = 1
                /\ <<k, q>> \notin DOMAIN calls
                /\ conn[k].st = "loop"
                /\ q = conn[k].req_no => conn[k].pc = "sleep"
    /\ counter = Cardinality(Ran)

\* request 1 of a connection was refused by poll_ready, request 2 of the same
\* connection was called and has run
C7_Witness ==
    \E k \in Conns :
      /\ Logged(AppNotReady(k, 1)) = 1
      /\ <<k, 1>> \notin DOMAIN calls
      /\ <<k, 2>> \in Ran
      /\ counter = 1

\* C8: a connection whose factory-call future failed is logged once as
\* failed and stays abandoned: never accepted, no request loop, no request,
\* no second factory call; every connection marked failed has that log line.
C8_FactoryCallFailureAbandons ==
    \A n \in 1 .. MaxConns :
      /\ Logged(FactoryError(n)) >= 1 =>
           /\ Logged(FactoryError(n)) = 1
           /\ conn[n].st = "failed"
           /\ conn[n].req_no = 0
           /\ conn[n].pc = "sleep"
           /\ conn[n].poll = "none"
           /\ CallsOf(n) = {}
           /\ Logged(Accepted(n)) = 0
      /\ conn[n].st = "failed" => Logged(FactoryError(n)) = 1
      /\ Logged(Accepted(n)) + Logged(FactoryError(n)) <= 1

\* the factory call of connection #1 failed; connection #2 was accepted and
\* one of its calls has run
C8_Witness ==
    /\ Logged(FactoryError(1)) = 1
    /\ conn[1].st = "failed"
    /\ Logged(Accepted(2)) = 1
    /\ CallsOf(2) \cap Ran /= {}

\* C9: a failed call leaves every loop running: the loop of its connection
\* is still a running loop, able to take its next arrival whenever it waits
\* for one, the future of the failed request ran once only, the connection
\* loop can still accept, and no connection whose loop ever took an arrival
\* is stopped.
C9_CallFailureStopsNoLoop ==
    /\ \A i \in Ran :
         calls[i].res.tag = "Err" =>
           /\ conn[i[1]].st = "loop"
           /\ Logged([kind |-> "error", conn |-> i[1], req |-> i[2],
                      res |-> calls[i].res]) = (IF calls[i].st = "logged" THEN 1 ELSE 0)
           /\ Logged([kind |-> "response", conn |-> i[1], req |-> i[2],
                      res |-> calls[i].res]) = 0
    /\ counter = Cardinality(Ran)
    /\ \A k \in Conns :
         /\ conn[k].req_no >= 1 => conn[k].st = "loop"
         /\ (conn[k].st = "loop" /\ conn[k].pc = "sleep" /\ arrivals < ArrivalBound)
              => ENABLED req_arrival(k)
    /\ (variant = "factory" /\ run_pc = "sleep" /\ connect_number < ConnBound)
         => ENABLED run_arrival

\* on one connection a request failed and was logged, and a later request of
\* the same connection has succeeded with a larger counter value
C9_Witness ==
    \E i, j \in Ran :
      /\ i[1] = j[1]
      /\ i[2] < j[2]
      /\ calls[i].res.tag = "Err"
      /\ calls[i].st = "logged"
      /\ calls[j].res.tag = "Ok"
      /\ calls[j].observed > calls[i].observed

\* C10: whenever the connection loop waits for an arrival it can take it,
\* whatever setup futures are still pending and whatever request loops run.
C10_AcceptNeverWaitsForUnits ==
    (variant = "factory" /\ run_pc = "sleep" /\ connect_number < ConnBound)
      => ENABLED run_arrival

\* connection #2 was taken and its factory call issued while the setup
\* future of connection #1 was still pending
C10_Witness ==
    /\ connect_number = 2
    /\ conn[1].st = "setup"
    /\ conn[2].st = "setup"

\* C11: on one connection a call is issued for the request that has just
\* arrived, after every earlier call of that connection, and the loop can
\* take its next arrival whatever calls of the connection are still in
\* flight (their results come in any order, as the witness shows).
C11_IssuedInOrderNeverAwaited ==
    /\ [](\A k \in Conns :
            (conn[k].st = "loop" /\ conn[k].pc = "sleep" /\ arrivals < ArrivalBound)
              => ENABLED req_arrival(k))
    /\ [][\A i \in (DOMAIN calls') \ (DOMAIN calls) :
            /\ i[2] = conn'[i[1]].req_no
            /\ i[2] = conn[i[1]].req_no + (IF conn[i[1]].pc = "sleep" THEN 1 ELSE 0)
            /\ \A j \in DOMAIN calls : j[1] = i[1] => j[2] < i[2]
            /\ calls'[i].st = "pending"]_vars

\* three calls of one connection: the first still pending, the second run but
\* its result not yet logged, the third already logged
C11_Witness ==
    \E k \in Conns :
      /\ {<<k, 1>>, <<k, 2>>, <<k, 3>>} \subseteq DOMAIN calls
      /\ calls[<<k, 1>>].st = "pending"
      /\ calls[<<k, 2>>].st = "done"
      /\ calls[<<k, 3>>].st = "logged"

\* ------------------------------------------- the end-to-end run
\* main's program (AppFactoryFn over mk_app, one counter) from its start:
\* the loops take their arrivals whenever their timers fire, on any
\* connection in any order, no request loop ever stops, and the spawned tasks
\* run whenever the runtime schedules them; modelled up to MaxE2EConns
\* connections, MaxE2EReqs requests and MaxE2ETasks call tasks alive at once
E2EInit ==
    /\ variant = "factory"
    /\ services = "adapters"
    /\ counter = 0
    /\ connect_number = 0
    /\ run_pc = "sleep"
    /\ factory_poll = "none"
    /\ conn = [k \in Conns |-> NoConn]
    /\ arrivals = 0
    /\ calls = EmptyMap
    /\ log = EmptyBag
    /\ invoked = EmptyBag
    /\ demo = NoDemo
    /\ harness = "e2e"
    /\ last_op = NoOp

E2ENext ==
    \/ run_arrival
    \/ \E k \in Conns : setup_done(k)
    \/ \E k \in Conns : req_arrival(k)
    \/ \E i \in DOMAIN calls : fut_run(i)
    \/ \E i \in DOMAIN calls : fut_log(i)

E2ESpec == E2EInit /\ [][E2ENext]_vars

\* calls whose future has executed the counter step
Executed == {i \in DOMAIN calls : calls[i].st \in {"done", "logged"}}

\* the value stamped on the response of call i is the text of v
Stamped(i, v) ==
    /\ calls[i].res.tag = "Ok"
    /\ calls[i].res.resp.status = 200
    /\ DOMAIN calls[i].res.resp.headers = {ExpectedKey(i[1])}
    /\ calls[i].res.resp.headers[ExpectedKey(i[1])] = Decimal[v + 1]

\* the scenario of C12 has run: three connections have arrived, exactly two
\* requests have arrived on each, and the futures of all six calls have
\* executed
Scenario ==
    /\ connect_number = 3
    /\ \A k \in {1, 2, 3} : conn[k].req_no = 2
    /\ DOMAIN calls = {<<1, 1>>, <<1, 2>>, <<2, 1>>, <<2, 2>>, <<3, 1>>, <<3, 2>>}
    /\ Executed = DOMAIN calls

C13_PollReadyAlwaysReadyNoEffect ==
    /\ [](/\ AppFactoryFn_poll_ready = "Ready"
          /\ AppFn_poll_ready = "Ready"
          /\ last_op.op \in {"factory_poll_ready", "poll_ready"} =>
                last_op.ret = "Ready")
    /\ [][(drive_factory_poll \/ \E k \in Conns : drive_poll(k)) =>
            /\ UNCHANGED <<counter, calls, invoked, log, connect_number, arrivals>>
            /\ \A k \in Conns : conn'[k].st = conn[k].st
                                 /\ conn'[k].req_no = conn[k].req_no]_vars

\* an app polled Ready after calls: one future still pending, one executed
C13_Witness ==
    /\ last_op.op = "poll_ready"
    /\ last_op.target \in Conns
    /\ last_op.ret = "Ready"
    /\ conn[last_op.target].poll = "Ready"
    /\ counter > 0
    /\ \E i \in DOMAIN calls : i[1] = last_op.target /\ calls[i].st = "pending"
    /\ \E i \in DOMAIN calls : i[1] = last_op.target /\ calls[i].st = "done"

\* log lines about request q of connection k
RequestLines(k, q) ==
    {e \in BagToSet(log) :
       /\ e.kind \in {"app_not_ready", "response", "error"}
       /\ e.conn = k
       /\ e.req = q}

\* the line the spawned task of call i prints
OutcomeLine(i) ==
    [kind |-> IF calls[i].res.tag = "Ok" THEN "response" ELSE "error",
     conn |-> i[1], req |-> i[2], res |-> calls[i].res]

\* C14 as stated: no line is logged twice; every request arrival a loop has
\* taken has exactly one outcome: the line of its readiness failure when no
\* call was issued for it (poll_ready reported NotReady or Failed), or else
\* its call, which has no line until its task prints and then exactly one,
\* its Response or its error; and with the spawned tasks scheduled fairly
\* every issued call gets there.
C14_Original ==
    /\ [](/\ \A e \in BagToSet(log) : CopiesIn(e, log) = 1
          /\ \A k \in Conns : \A q \in 1 .. conn[k].req_no :
                /\ Cardinality(RequestLines(k, q)) <= 1
                /\ <<k, q>> \notin DOMAIN calls =>
                      RequestLines(k, q) = {AppNotReady(k, q)}
          /\ \A i \in DOMAIN calls :
                /\ i[2] \in 1 .. conn[i[1]].req_no
                /\ RequestLines(i[1], i[2]) =
                      IF calls[i].st = "logged" THEN {OutcomeLine(i)} ELSE {})
    /\ []<>(\A i \in DOMAIN calls : calls[i].st = "logged")

\* what the request loop does instead: every call issued so far has been
\* printed, one of them on a connection whose latest request had poll_ready
\* report NotReady; that request has no call and no line, and its loop is
\* suspended in ready().await
C14_Witness ==
    \E k \in Conns :
      /\ conn[k].st = "loop"
      /\ conn[k].pc = "ready"
      /\ conn[k].poll = "Pending"
      /\ <<k, conn[k].req_no>> \notin DOMAIN calls
      /\ RequestLines(k, conn[k].req_no) = {}
      /\ \A i \in DOMAIN calls : calls[i].st = "logged"
      /\ \E i \in DOMAIN calls :
            /\ i[1] = k
            /\ Logged(OutcomeLine(i)) = 1

\* the record of one invocation of the factory's function for arrival n
FactoryInvocation(n) == [fn |-> "factory", conn |-> n, input |-> ConnInfo(n)]

\* C15: the factory's function is invoked at most once per connection
\* arrival, with that arrival's ConnInfo (once exactly when the factory was
\* ready, never when the arrival was refused); one request loop is started
\* per accepted connection and none otherwise; the app of a connection is
\* called by that connection's loop only, once per call it issued, and no
\* two connections hold an app made for the same ConnInfo.
C15_OneServicePerConnection ==
    /\ \A e \in BagToSet(invoked) :
          e.fn = "factory" =>
            /\ e.conn \in 1 .. connect_number
            /\ e = FactoryInvocation(e.conn)
    /\ \A n \in Conns \ {0} :
          /\ CopiesIn(FactoryInvocation(n), invoked) =
                (IF conn[n].st \in {"setup", "loop", "failed"} THEN 1 ELSE 0)
          /\ Logged(Accepted(n)) = (IF conn[n].st = "loop" THEN 1 ELSE 0)
          /\ conn[n].st \in {"setup", "loop", "failed"} =>
                conn[n].info = ConnInfo(n)
    /\ \A k, j \in Conns \ {0} :
          (/\ k /= j
           /\ conn[k].st \in {"setup", "loop"}
           /\ conn[j].st \in {"setup", "loop"}) => conn[k].info /= conn[j].info
    /\ \A e \in BagToSet(invoked) :
          e.fn = "app" =>
            /\ conn[e.conn].st = "loop"
            /\ CopiesIn(e, invoked) = Cardinality(CallsOf(e.conn))
    /\ \A i \in DOMAIN calls :
          /\ calls[i].conn = i[1]
          /\ conn[i[1]].st = "loop"
          /\ CopiesIn([fn |-> "app", conn |-> i[1], input |-> calls[i].given],
                      invoked) = Cardinality(CallsOf(i[1]))

\* two accepted connections, each with its own app, made by one invocation
\* of the factory's function, and a call issued on it
C15_Witness ==
    /\ variant = "factory"
    /\ \E k, j \in Conns \ {0} :
          /\ k /= j
          /\ conn[k].st = "loop" /\ conn[j].st = "loop"
          /\ CallsOf(k) /= {} /\ CallsOf(j) /= {}
          /\ CopiesIn(FactoryInvocation(k), invoked) = 1
          /\ CopiesIn(FactoryInvocation(j), invoked) = 1

\* connection arrivals taken so far: every one has a record
Arrived == {n \in Conns \ {0} : conn[n].st /= "none"}

\* the text of a ConnInfo for identifiers 1 .. 4, written out
InfoText ==
    <<"Fake info, connection #1", "Fake info, connection #2",
      "Fake info, connection #3", "Fake info, connection #4">>

\* C16: the k-th connection arrival carries identifier k, counted from 1: an
\* arrival takes the next identifier when it is taken, whether the factory
\* was then ready, refused, failed or left the loop suspended; identifiers
\* only grow, by one per arrival, and no two connections carry the same one.
C16_IdentifiersCountArrivals ==
    /\ [](/\ connect_number \in 0 .. Cardinality(Conns \ {0})
          /\ Arrived \cup (IF run_pc = "ready" THEN {connect_number} ELSE {})
               = 1 .. connect_number
          /\ \A n \in Arrived :
                conn[n].st \in {"setup", "loop", "failed"} =>
                  conn[n].info.host_and_port = InfoText[n]
          /\ \A e \in BagToSet(invoked) :
                e.fn = "factory" => e.input.host_and_port = InfoText[e.conn]
          /\ \A n, m \in 1 .. connect_number :
                n /= m => ConnInfo(n) /= ConnInfo(m))
    /\ [][\/ connect_number' = connect_number
          \/ /\ connect_number' = connect_number + 1
             /\ conn[connect_number'].st = "none"
             /\ \/ conn'[connect_number'].st \in {"setup", "dropped"}
                \/ run_pc' = "ready"]_vars

\* the first arrival was refused at the readiness check, the second had its
\* factory call fail: the identifiers 1 and 2 are both used up
C16_Witness ==
    /\ connect_number = 2
    /\ conn[1].st = "dropped"
    /\ conn[2].st = "failed"
    /\ conn[2].info.host_and_port = "Fake info, connection #2"
    /\ Logged(FactoryNotReady(1)) = 1
    /\ Logged(FactoryError(2)) = 1

\* the ConnInfos the factory's function was invoked with for connection k
FactoryInputs(k) ==
    {e.input : e \in {x \in BagToSet(invoked) : x.fn = "factory" /\ x.conn = k}}

\* C17: in the factory program every successful Response carries one header,
\* whose key is made of the ConnInfo the factory's function was invoked with
\* for the connection on whose loop the request was issued: the key names
\* that connection's identifier and no other connection's.
C17_StampNamesOwnConnection ==
    variant = "factory" =>
      \A i \in DOMAIN calls :
        calls[i].res.tag = "Ok" =>
          /\ FactoryInputs(i[1]) = {conn[i[1]].info}
          /\ \A ci \in FactoryInputs(i[1]) :
                /\ DOMAIN calls[i].res.resp.headers = {FactoryKey(ci)}
                /\ FactoryKey(ci) = ExpectedKey(i[1])
          /\ \A k \in Conns \ {i[1]} :
                ExpectedKey(k) \notin DOMAIN calls[i].res.resp.headers

\* connection 1's response is made when connection 2 has already had a
\* response of its own printed: each carries its own connection's key
C17_Witness ==
    /\ variant = "factory"
    /\ {<<1, 1>>, <<2, 1>>} \subseteq DOMAIN calls
    /\ calls[<<2, 1>>].st = "logged"
    /\ calls[<<1, 1>>].st = "done"
    /\ calls[<<1, 1>>].observed > calls[<<2, 1>>].observed
    /\ calls[<<1, 1>>].res.tag = "Ok"
    /\ calls[<<2, 1>>].res.tag = "Ok"
    /\ DOMAIN calls[<<1, 1>>].res.resp.headers = {ExpectedKey(1)}
    /\ DOMAIN calls[<<2, 1>>].res.resp.headers = {ExpectedKey(2)}

\* C18: the adapters' call invokes the wrapped function once per call, with
\* the input the call was given, and returns that invocation's future: the
\* invocations recorded for an app are, input by input, as many as the calls
\* made on it with that input, the factory's function was invoked once with
\* the ConnInfo of each call made on the factory, and the result of a call
\* whose future has executed is the wrapped function's result on its input.
C18_CallIsWrappedFunction ==
    /\ \A e \in BagToSet(invoked) :
          \/ e.fn = "factory" /\ e = FactoryInvocation(e.conn)
          \/ e.fn = "app" /\ e.input \in DriveRequests
    /\ \A n \in Conns \ {0} :
          /\ CopiesIn(FactoryInvocation(n), invoked) =
                (IF conn[n].st = "none" THEN 0 ELSE 1)
          /\ conn[n].st /= "none" => conn[n].info = ConnInfo(n)
    /\ \A k \in Conns : \A rq \in DriveRequests :
          CopiesIn([fn |-> "app", conn |-> k, input |-> rq], invoked) =
            Cardinality({i \in CallsOf(k) : calls[i].given = rq})
    /\ \A i \in DOMAIN calls :
          /\ calls[i].request = calls[i].given
          /\ calls[i].st = "done" =>
                calls[i].res = handler(i[1], calls[i].given, calls[i].observed)

\* the factory adapter was called once and the app it returned twice, with
\* two different requests; the second call's future has executed and echoes
\* the request that call was given
C18_Witness ==
    /\ variant = "factory"
    /\ CopiesIn(FactoryInvocation(1), invoked) = 1
    /\ {<<1, 1>>, <<1, 2>>} \subseteq DOMAIN calls
    /\ calls[<<1, 1>>].given = FakeRequest
    /\ calls[<<1, 2>>].given /= FakeRequest
    /\ calls[<<1, 2>>].st = "done"
    /\ calls[<<1, 2>>].res.tag = "Ok"
    /\ calls[<<1, 2>>].res.resp.body = <<104, 105>>
    /\ calls[<<1, 2>>].res.resp.headers[AppfnKey] = "7"

\* C19: the counter is the number of call futures that have executed; a
\* step that invokes call, and a step that drops a future that never ran,
\* leave it as it was; it goes up by one exactly in a step in which one
\* pending future executes, and never down; a dropped future has observed
\* nothing and has no result.
C19_CounterCountsExecutedFutures ==
    /\ [](/\ counter = Cardinality(Executed)
          /\ variant = "appfn" =>
                demo.counter =
                  Cardinality({q \in DOMAIN demo.calls : demo.calls[q].st = "done"})
          /\ \A i \in DOMAIN calls :
                calls[i].st \in {"pending", "dropped"} =>
                  calls[i].observed = -1 /\ calls[i].res = NoResult)
    /\ [][/\ counter' \in {counter, counter + 1}
          /\ (DOMAIN calls' /= DOMAIN calls) => counter' = counter
          /\ (\E i \in DOMAIN calls :
                 calls[i].st = "pending" /\ calls'[i].st = "dropped")
               => counter' = counter
          /\ counter' = counter + 1 =>
               \E i \in DOMAIN calls :
                 /\ calls[i].st = "pending"
                 /\ calls'[i].st = "done"
                 /\ calls'[i].observed = counter
                 /\ \A j \in DOMAIN calls \ {i} : calls'[j] = calls[j]]_vars

\* three calls made: one future dropped, one executed, one still pending,
\* and the counter stands at one
C19_Witness ==
    /\ counter = 1
    /\ \E i, j, l \in DOMAIN calls :
          /\ calls[i].st = "dropped"
          /\ calls[j].st = "done"
          /\ calls[l].st = "pending"
          /\ i[2] < j[2]

\* C20: in the single-service program the closure wrapped by app_fn and a
\* DemoApp given the same polls, calls, executions and drops, both from a
\* counter at 0, agree at every point: same poll_ready answers, same counter,
\* and for every call the same observed value and the same result (the same
\* error, or the same status, headers and body).
C20_DemoAppEquivalentToClosure ==
    variant = "appfn" =>
      /\ demo.counter = counter
      /\ demo.poll = conn[0].poll
      /\ DOMAIN demo.calls = {i[2] : i \in CallsOf(0)}
      /\ \A i \in CallsOf(0) :
            /\ demo.calls[i[2]].request = calls[i].given
            /\ demo.calls[i[2]].st = calls[i].st
            /\ demo.calls[i[2]].observed = calls[i].observed
            /\ demo.calls[i[2]].res = calls[i].res
            /\ calls[i].st = "done" =>
                  /\ calls[i].res = main_closure(calls[i].given, calls[i].observed)
                  /\ demo.calls[i[2]].res =
                        DemoApp_call(calls[i].given, calls[i].observed)

\* three calls executed on both, out of the order of issue: one failed on
\* both, and one that carried a counter header of its own was answered by
\* both with that header overwritten
C20_Witness ==
    /\ variant = "appfn"
    /\ demo.poll = "Ready"
    /\ demo.counter = 3
    /\ \E i, j \in CallsOf(0) :
          /\ demo.calls[i[2]].res.tag = "Err"
          /\ calls[i].res.tag = "Err"
          /\ i[2] /= 3
          /\ calls[j].given.headers = (AppfnKey :> "7")
          /\ demo.calls[j[2]].res.tag = "Ok"
          /\ demo.calls[j[2]].res.resp.headers = (AppfnKey :> to_string(calls[j].observed))
          /\ calls[j].res.resp.headers = demo.calls[j[2]].res.resp.headers

====
